---- MODULE Spec2Model ----
(***************************************************************************)
(* git-profile: named Git identity profiles kept in ~/.git-profiles.json,  *)
(* applied to the Git configuration, exported to and imported from JSON    *)
(* files.  The model follows the two command surfaces of the repository:   *)
(* the argument-driven one (src/main.go) and the interactive one with      *)
(* export/import (src/unnamed/part_000, lines 319-777).                    *)
(***************************************************************************)
EXTENDS Integers, Sequences, FiniteSets, TLC

(***************************************************************************)
(* Bounds of the model.                                                    *)
(***************************************************************************)
\* number of profile names the prompts and arguments draw from
NumNames == 2
\* number of process invocations in one behaviour
MaxRuns == 2

(***************************************************************************)
(* Go strings.  A string is a sequence of characters; XFF stands for a     *)
(* byte that is not valid UTF-8 and UFFFD for the Unicode replacement      *)
(* character.  Alphabet lists the characters in byte order.                *)
(***************************************************************************)
SP == " "
XFF == "\\xff"
UFFFD == "\\ufffd"
Alphabet == <<SP, "A", "B", "C", "a", "b", "c", "e", "h", "k", "l", "m", "n",
              "o", "p", "r", "s", "w", UFFFD, XFF>>

EmptyStr == <<>>
work == <<"w", "o", "r", "k">>
personal == <<"p", "e", "r", "s", "o", "n", "a", "l">>
home == <<"h", "o", "m", "e">>
NameUniverse == <<work, personal, home>>
Names == {NameUniverse[i] : i \in 1..NumNames}

Rank(c) == CHOOSE i \in 1..Len(Alphabet) : Alphabet[i] = c

\* byte-wise s < t, the order sort.Strings gives the keys of an encoded map
RECURSIVE StrLess(_, _)
StrLess(s, t) ==
    IF t = <<>> THEN FALSE
    ELSE IF s = <<>> THEN TRUE
    ELSE IF Head(s) = Head(t) THEN StrLess(Tail(s), Tail(t))
    ELSE Rank(Head(s)) < Rank(Head(t))

RECURSIVE TrimLeft(_)
TrimLeft(s) == IF s # <<>> /\ Head(s) = SP THEN TrimLeft(Tail(s)) ELSE s

RECURSIVE TrimRight(_)
TrimRight(s) ==
    IF s # <<>> /\ s[Len(s)] = SP THEN TrimRight(SubSeq(s, 1, Len(s) - 1)) ELSE s

\* strings.TrimSpace
TrimSpace(s) == TrimRight(TrimLeft(s))

\* the encoder writes a string coerced to valid UTF-8
ToValidUTF8(s) == [i \in 1..Len(s) |-> IF s[i] = XFF THEN UFFFD ELSE s[i]]

(***************************************************************************)
(* Profile and the in-memory map.  A Go map is a function from names to    *)
(* profiles together with a flag that tells the nil map from an empty one. *)
(***************************************************************************)
Profile(n, e, k) == [Name |-> n, Email |-> e, Signing |-> [Key |-> k]]
ZeroProfile == Profile(EmptyStr, EmptyStr, EmptyStr)

EmptyMap == [n \in {} |-> ZeroProfile]
MapSet(m, k, v) == [n \in (DOMAIN m) \cup {k} |-> IF n = k THEN v ELSE m[n]]
\* a delete that clears the map instead of removing the one entry
MapClear(m, k) == EmptyMap

\* the built-in delete: a no-op when the key is absent
MapDelete(m, k) == [n \in (DOMAIN m) \ {k} |-> m[n]]

(***************************************************************************)
(* File contents.  A document is what the bytes of a file are to the JSON  *)
(* decoder: no bytes at all, bytes that are not JSON, JSON of another      *)
(* shape than an object of profiles, the literal null, or an object, kept  *)
(* as the sequence of its members in file order.  A member's value keeps   *)
(* each field as a sequence of length 0 (absent) or 1 (present).           *)
(***************************************************************************)
Doc(k, ms) == [k |-> k, members |-> ms]
EmptyDoc == Doc("empty", <<>>)
MalformedDoc == Doc("malformed", <<>>)
WrongTypeDoc == Doc("wrongtype", <<>>)
NullDoc == Doc("null", <<>>)
ObjectDoc(ms) == Doc("object", ms)

Member(key, n, e, s) == [key |-> key, name |-> n, email |-> e, signing |-> s]

\* Signing has no omitempty effect on a struct: "signing" is always written,
\* and "key" inside it only when non-empty
MarshalProfile(key, p) ==
    Member(ToValidUTF8(key), <<ToValidUTF8(p.Name)>>, <<ToValidUTF8(p.Email)>>,
           << IF p.Signing.Key = EmptyStr THEN <<>>
              ELSE <<ToValidUTF8(p.Signing.Key)>> >>)

UnmarshalProfile(j) ==
    Profile(IF j.name = <<>> THEN EmptyStr ELSE j.name[1],
            IF j.email = <<>> THEN EmptyStr ELSE j.email[1],
            IF j.signing = <<>> \/ j.signing[1] = <<>> THEN EmptyStr
            ELSE j.signing[1][1])

MinKey(S) == CHOOSE k \in S : \A o \in S \ {k} : StrLess(k, o)

RECURSIVE SortedKeys(_)
SortedKeys(S) ==
    IF S = {} THEN <<>> ELSE <<MinKey(S)>> \o SortedKeys(S \ {MinKey(S)})

\* json.MarshalIndent of a map[string]Profile
Marshal(m, isNil) ==
    IF isNil THEN NullDoc
    ELSE ObjectDoc([i \in 1..Cardinality(DOMAIN m) |->
                       MarshalProfile(SortedKeys(DOMAIN m)[i],
                                      m[SortedKeys(DOMAIN m)[i]])])

RECURSIVE DecodeMembers(_, _)
DecodeMembers(ms, m) ==
    IF ms = <<>> THEN m
    ELSE DecodeMembers(Tail(ms),
                       MapSet(m, Head(ms).key, UnmarshalProfile(Head(ms))))

\* json.Unmarshal(data, &target) for a target holding the map m
Unmarshal(doc, m, isNil) ==
    CASE doc.k = "object" ->
            [err |-> FALSE, isNil |-> FALSE, m |-> DecodeMembers(doc.members, m)]
      [] doc.k = "null" ->
            [err |-> FALSE, isNil |-> TRUE, m |-> EmptyMap]
      [] OTHER ->
            [err |-> TRUE, isNil |-> isNil, m |-> m]

(***************************************************************************)
(* Paths.  A path is kept as its text before the extension filepath.Ext    *)
(* reports, and that extension.                                            *)
(***************************************************************************)
Path(stem, ext) == [stem |-> stem, ext |-> ext]
NoPath == Path("", "")
ConfigPath == Path("~/.git-profiles", ".json")
DefaultExportPath == Path("~/git-profiles-export", ".json")
BackupPath == Path("backup", ".json")
Files == {ConfigPath, DefaultExportPath, BackupPath}

\* what the user may pass to export: nothing, a name without .json, a name
\* with it, and the config file's own name without its .json
ExportArgs == {NoPath, Path("backup", ""), BackupPath, Path("~/", ".git-profiles")}
ImportArgs == {BackupPath, DefaultExportPath}

\* Export's "ensure the file has .json extension"
EnsureJson(p) == IF p.ext # ".json" THEN Path(p.stem \o p.ext, ".json") ELSE p

Absent == [st |-> "absent", doc |-> EmptyDoc]
NoPerm == [st |-> "noperm", doc |-> EmptyDoc]
FileOf(doc) == [st |-> "file", doc |-> doc]
ReadOnly(doc) == [st |-> "readonly", doc |-> doc]

\* os.ReadFile: the bytes, or an error when the file is absent or unreadable
ReadFile(file) == [err |-> file.st \in {"absent", "noperm"}, doc |-> file.doc]

\* os.WriteFile: the whole content is replaced, or the open fails
WriteFile(files, path, doc) ==
    IF files[path].st \in {"noperm", "readonly"} THEN [err |-> TRUE, fs |-> files]
    ELSE [err |-> FALSE, fs |-> [files EXCEPT ![path] = FileOf(doc)]]

(***************************************************************************)
(* The inputs the model draws from.                                        *)
(***************************************************************************)
ProfA == Profile(<<"A">>, <<"a">>, EmptyStr)
ProfB == Profile(<<"B">>, <<"b">>, <<"k">>)
ProfC == Profile(<<"C">>, <<"c">>, EmptyStr)

\* the store the tests build: one profile
StoreA == MapSet(EmptyMap, work, ProfA)

\* lines typed at the three prompts of interactiveProfileInput
InputTriples ==
    { <<EmptyStr, EmptyStr, EmptyStr>>,
      <<EmptyStr, <<SP, "c">>, EmptyStr>>,
      <<<<SP>>, EmptyStr, <<"k">>>>,
      <<<<"C">>, <<"c">>, EmptyStr>>,
      <<<<XFF>>, <<"a">>, EmptyStr>> }
\* [username] [email] of the argument-driven add
ArgPairs == { <<<<"B">>, <<"b">>>>, <<EmptyStr, <<"a">>>> }
PromptNames == Names \cup {EmptyStr}

InitConfigFiles ==
    { Absent, NoPerm, FileOf(EmptyDoc), FileOf(MalformedDoc), FileOf(WrongTypeDoc),
      FileOf(NullDoc),
      FileOf(Marshal(MapSet(EmptyMap, work, ProfA), FALSE)),
      ReadOnly(Marshal(MapSet(EmptyMap, work, ProfA), FALSE)) }
\* a file written by hand: a repeated key, fields left out
HandWritten ==
    ObjectDoc(<< Member(personal, <<<<"B">>>>, <<>>, <<>>),
                 Member(personal, <<<<"C">>>>, <<<<"c">>>>, << <<>> >>) >>)
InitImportFiles ==
    { Absent, NoPerm, FileOf(MalformedDoc), FileOf(NullDoc), FileOf(HandWritten),
      FileOf(Marshal(MapSet(MapSet(EmptyMap, work, ProfB), personal, ProfC), FALSE)) }

\* the processes; Spec runs the invocations one after another as p1
Procs == {"p1", "p2"}

VARIABLES
    fs,      \* the files: path -> content
    gitcfg,  \* user.name and user.email of the external tool (length 0: unset)
    cm,      \* per process: ConfigManager.Profiles and whether the map is nil
    pc,      \* per process: "idle", "ready" (constructed, before dispatch), "exited"
    runs,    \* processes started so far
    pre,     \* the store and the files when the last command started
    last     \* what the last command did and reported

vars == <<fs, gitcfg, cm, pc, runs, pre, last>>

NewMap == [Profiles |-> EmptyMap, isNil |-> FALSE]
Unset == [name |-> <<>>, email |-> <<>>]

Report(p, surface, cmd, result, exit, msg) ==
    [proc |-> p, surface |-> surface, cmd |-> cmd, result |-> result,
     exit |-> exit, msg |-> msg, verr |-> "", name |-> EmptyStr,
     entered |-> <<>>, existing |-> <<>>, calls |-> <<>>, arg |-> NoPath,
     path |-> NoPath,
     strategy |-> "", imported |-> NewMap, listing |-> {}]

Init ==
    /\ fs \in {f \in [Files -> InitConfigFiles \cup InitImportFiles] :
                  /\ f[ConfigPath] \in InitConfigFiles
                  /\ f[BackupPath] \in InitImportFiles
                  /\ f[DefaultExportPath] = Absent}
    /\ gitcfg = Unset
    /\ cm = [p \in Procs |-> NewMap]
    /\ pc = [p \in Procs |-> "idle"]
    /\ runs = 0
    /\ pre = [cm |-> NewMap, fs |-> fs, git |-> gitcfg]
    /\ last = Report("p1", "", "none", "", 0, "")

(***************************************************************************)
(* ConfigManager.load and ConfigManager.save                               *)
(***************************************************************************)
\* a load that goes on with an empty store when the content does not parse
loadIgnoringParseError(file) ==
    IF file.st = "absent" THEN [fatal |-> FALSE, cm |-> NewMap]
    ELSE IF ReadFile(file).err THEN [fatal |-> TRUE, cm |-> NewMap]
    ELSE LET u == Unmarshal(ReadFile(file).doc, EmptyMap, FALSE)
         IN  [fatal |-> FALSE, cm |-> [Profiles |-> u.m, isNil |-> u.isNil]]

\* load into the fresh map of NewConfigManager
load(file) ==
    IF file.st = "absent" THEN [fatal |-> FALSE, cm |-> NewMap]
    ELSE IF ReadFile(file).err THEN [fatal |-> TRUE, cm |-> NewMap]
    ELSE IF ReadFile(file).doc.k = "empty" THEN [fatal |-> FALSE, cm |-> NewMap]
    ELSE LET u == Unmarshal(ReadFile(file).doc, EmptyMap, FALSE)
         IN  [fatal |-> u.err, cm |-> [Profiles |-> u.m, isNil |-> u.isNil]]

\* save: err means log.Fatal
save(files, c) == WriteFile(files, ConfigPath, Marshal(c.Profiles, c.isNil))

\* main: configManager := NewConfigManager(), before the command is dispatched
NewConfigManager(p) ==
    /\ pc[p] \in {"idle", "exited"}
    /\ runs < MaxRuns
    /\ runs' = runs + 1
    /\ LET l == load(fs[ConfigPath])
       IN  /\ cm' = [cm EXCEPT ![p] = l.cm]
           /\ pc' = [pc EXCEPT ![p] = IF l.fatal THEN "exited" ELSE "ready"]
           /\ last' = IF l.fatal
                      THEN Report(p, "", "load", "fatal", 1, "log.Fatal")
                      ELSE Report(p, "", "load", "ok", 0, "")
    /\ pre' = [cm |-> NewMap, fs |-> fs, git |-> gitcfg]
    /\ UNCHANGED <<fs, gitcfg>>

\* the end of a command: the process exits with what it reported
Finish(p, rep, c, files, git) ==
    /\ pc[p] = "ready"
    /\ pc' = [pc EXCEPT ![p] = "exited"]
    /\ cm' = [cm EXCEPT ![p] = c]
    /\ fs' = files
    /\ gitcfg' = git
    /\ pre' = [cm |-> cm[p], fs |-> fs, git |-> gitcfg]
    /\ last' = rep
    /\ UNCHANGED runs

\* a command that changed the map and calls save
FinishSaved(p, rep, c) ==
    LET w == save(fs, c)
    IN  IF w.err
        THEN Finish(p, [rep EXCEPT !.result = "fatal", !.exit = 1, !.msg = "log.Fatal"],
                    c, w.fs, gitcfg)
        ELSE Finish(p, rep, c, w.fs, gitcfg)

\* assignment to an entry of a nil map
Panic(p, rep) ==
    Finish(p, [rep EXCEPT !.result = "panic", !.exit = 2,
                          !.msg = "panic: assignment to entry in nil map"],
           cm[p], fs, gitcfg)

(***************************************************************************)
(* interactiveProfileInput: three lines read from standard input, each     *)
(* trimmed; an empty one keeps the existing profile's value.               *)
(***************************************************************************)
\* an input that replaces the field even when the line is empty
TakeAlways(line, hasExisting, old) == TrimSpace(line)

KeepOrTake(line, hasExisting, old) ==
    IF TrimSpace(line) = EmptyStr /\ hasExisting THEN old ELSE TrimSpace(line)

interactiveProfileInput(hasExisting, existing, lines) ==
    Profile(KeepOrTake(lines[1], hasExisting, existing.Name),
            KeepOrTake(lines[2], hasExisting, existing.Email),
            IF TrimSpace(lines[3]) # EmptyStr THEN TrimSpace(lines[3])
            ELSE IF hasExisting THEN existing.Signing.Key ELSE EmptyStr)

\* the Validate function of the add prompt: "" when the name is accepted
Validate(c, input) ==
    IF input = EmptyStr THEN "profile name cannot be empty"
    ELSE IF input \in DOMAIN c.Profiles THEN "profile already exists"
    ELSE ""

(***************************************************************************)
(* The commands of the interactive surface.                                *)
(***************************************************************************)
\* add: the prompt returns only a name Validate accepts, or an abort
addCmd(p) ==
    /\ pc[p] = "ready"
    /\ \E typed \in PromptNames, abort \in BOOLEAN, lines \in InputTriples :
           LET verr == Validate(cm[p], typed)
               rep == [Report(p, "interactive", "add", "ok", 0, "added successfully")
                          EXCEPT !.name = typed, !.entered = lines]
               profile == interactiveProfileInput(FALSE, ZeroProfile, lines)
           IN  IF verr # "" \/ abort
               THEN Finish(p, [Report(p, "interactive", "add", "cancelled", 0, "Cancelled.")
                                  EXCEPT !.name = typed, !.verr = verr],
                           cm[p], fs, gitcfg)
               ELSE IF cm[p].isNil THEN Panic(p, rep)
               ELSE FinishSaved(p, rep,
                        [cm[p] EXCEPT !.Profiles = MapSet(@, typed, profile)])

\* edit: select an existing name; with nothing to select, or on an abort, the
\* prompt returns an error and the command is cancelled
editCmd(p) ==
    /\ pc[p] = "ready"
    /\ \/ Finish(p, Report(p, "interactive", "edit", "cancelled", 0, "Cancelled."),
                 cm[p], fs, gitcfg)
       \/ \E sel \in DOMAIN cm[p].Profiles, lines \in InputTriples :
             LET existing == cm[p].Profiles[sel]
                 updated == interactiveProfileInput(TRUE, existing, lines)
             IN  FinishSaved(p,
                     [Report(p, "interactive", "edit", "ok", 0, "updated successfully")
                         EXCEPT !.name = sel, !.entered = lines, !.existing = <<existing>>],
                     [cm[p] EXCEPT !.Profiles = MapSet(@, sel, updated)])

\* rm: select, confirm, delete, save
removeCmd(p) ==
    /\ pc[p] = "ready"
    /\ \/ Finish(p, Report(p, "interactive", "rm", "cancelled", 0, "Cancelled."),
                 cm[p], fs, gitcfg)
       \/ \E sel \in DOMAIN cm[p].Profiles, confirm \in BOOLEAN :
             IF ~confirm
             THEN Finish(p, [Report(p, "interactive", "rm", "cancelled", 0,
                                    "Removal cancelled.") EXCEPT !.name = sel],
                         cm[p], fs, gitcfg)
             ELSE FinishSaved(p,
                     [Report(p, "interactive", "rm", "ok", 0, "removed successfully")
                         EXCEPT !.name = sel],
                     [cm[p] EXCEPT !.Profiles = MapDelete(@, sel)])

(***************************************************************************)
(* apply: the two invocations of the external tool, in order, stopping at  *)
(* the first that fails.  Whether an invocation succeeds is up to the tool.*)
(***************************************************************************)
gitCommands(profile, scope) ==
    << [scope |-> scope, key |-> "name", value |-> profile.Name],
       [scope |-> scope, key |-> "email", value |-> profile.Email] >>

\* a loop that reports the failure but goes on to the next invocation
RECURSIVE RunGitAll(_, _, _, _)
RunGitAll(cmds, oks, git, calls) ==
    IF cmds = <<>>
    THEN [err |-> \E i \in 1..Len(calls) : ~calls[i].ok, git |-> git, calls |-> calls]
    ELSE RunGitAll(Tail(cmds), Tail(oks),
                   IF Head(oks) THEN [git EXCEPT ![Head(cmds).key] = <<Head(cmds).value>>]
                   ELSE git,
                   Append(calls, [cmd |-> Head(cmds), ok |-> Head(oks)]))

RECURSIVE RunGit(_, _, _, _)
RunGit(cmds, oks, git, calls) ==
    IF cmds = <<>> THEN [err |-> FALSE, git |-> git, calls |-> calls]
    ELSE IF ~Head(oks)
    THEN [err |-> TRUE, git |-> git,
          calls |-> Append(calls, [cmd |-> Head(cmds), ok |-> FALSE])]
    ELSE RunGit(Tail(cmds), Tail(oks),
                [git EXCEPT ![Head(cmds).key] = <<Head(cmds).value>>],
                Append(calls, [cmd |-> Head(cmds), ok |-> TRUE]))

ApplyProfile(p, surface, sel, profile, scope, oks) ==
    LET r == RunGit(gitCommands(profile, scope), oks, gitcfg, <<>>)
        rep == [Report(p, surface, "apply", "ok", 0, "applied successfully")
                   EXCEPT !.name = sel, !.calls = r.calls]
    IN  IF r.err
        THEN Finish(p, [rep EXCEPT !.result = "failed", !.msg = "Error applying profile"],
                    cm[p], fs, r.git)
        ELSE Finish(p, rep, cm[p], fs, r.git)

applyCmd(p) ==
    /\ pc[p] = "ready"
    /\ \/ Finish(p, Report(p, "interactive", "apply", "cancelled", 0, "Cancelled."),
                 cm[p], fs, gitcfg)
       \/ \E sel \in DOMAIN cm[p].Profiles, oks \in BOOLEAN \X BOOLEAN :
             ApplyProfile(p, "interactive", sel, cm[p].Profiles[sel], "local", oks)

(***************************************************************************)
(* ls, with the active profile read back from the external tool            *)
(***************************************************************************)
getActiveProfile(git) ==
    IF git.name = <<>> \/ git.email = <<>>
    THEN [err |-> TRUE, name |-> EmptyStr, email |-> EmptyStr]
    ELSE [err |-> FALSE, name |-> TrimSpace(git.name[1]),
          email |-> TrimSpace(git.email[1])]

listCmd(p) ==
    /\ pc[p] = "ready"
    /\ LET active == getActiveProfile(gitcfg)
           profiles == cm[p].Profiles
       IN  IF DOMAIN profiles = {}
           THEN Finish(p, Report(p, "interactive", "ls", "ok", 0, "No profiles found."),
                       cm[p], fs, gitcfg)
           ELSE IF active.err
           THEN Finish(p, Report(p, "interactive", "ls", "failed", 0,
                                 "Error retrieving active profile"),
                       cm[p], fs, gitcfg)
           ELSE Finish(p, [Report(p, "interactive", "ls", "ok", 0, "listed") EXCEPT
                              !.listing = { [name |-> n, profile |-> profiles[n],
                                             active |-> /\ profiles[n].Name = active.name
                                                        /\ profiles[n].Email = active.email]
                                            : n \in DOMAIN profiles }],
                       cm[p], fs, gitcfg)

(***************************************************************************)
(* ConfigManager.Export and ConfigManager.Import, with their commands      *)
(***************************************************************************)
\* an export whose default destination is the config file
ExportToConfigByDefault(files, c, outputPath) ==
    LET path == EnsureJson(IF outputPath = NoPath THEN ConfigPath ELSE outputPath)
        w == WriteFile(files, path, Marshal(c.Profiles, c.isNil))
    IN  [err |-> w.err, fs |-> w.fs, path |-> path]

Export(files, c, outputPath) ==
    LET path == EnsureJson(IF outputPath = NoPath THEN DefaultExportPath
                           ELSE outputPath)
        w == WriteFile(files, path, Marshal(c.Profiles, c.isNil))
    IN  [err |-> w.err, fs |-> w.fs, path |-> path]

exportCmd(p) ==
    /\ pc[p] = "ready"
    /\ \E arg \in ExportArgs :
           LET e == Export(fs, cm[p], arg)
               rep == [Report(p, "interactive", "export", "ok", 0, "Profiles exported to")
                          EXCEPT !.arg = arg, !.path = e.path]
           IN  IF e.err
               THEN Finish(p, [rep EXCEPT !.result = "failed", !.exit = 1,
                                          !.msg = "Export failed"],
                           cm[p], e.fs, gitcfg)
               ELSE Finish(p, rep, cm[p], e.fs, gitcfg)

\* the merge loop: a name that is not present is assigned, which panics on a
\* nil map
Merge(c, imported) ==
    LET new == (DOMAIN imported.Profiles) \ (DOMAIN c.Profiles)
    IN  [panic |-> c.isNil /\ new # {},
         cm |-> [c EXCEPT !.Profiles =
                    [n \in (DOMAIN c.Profiles) \cup new |->
                        IF n \in DOMAIN c.Profiles THEN c.Profiles[n]
                        ELSE imported.Profiles[n]]]]

\* a replace that keeps the entries the store already has
ReplaceKeepingExisting(c, imported) ==
    [imported EXCEPT !.Profiles =
        [n \in (DOMAIN c.Profiles) \cup (DOMAIN imported.Profiles) |->
            IF n \in DOMAIN c.Profiles THEN c.Profiles[n]
            ELSE imported.Profiles[n]]]

\* the replace case: cm.Profiles = importedProfiles
Replace(c, imported) == imported

Strategies == {"Merge", "Replace"}

importCmd(p) ==
    /\ pc[p] = "ready"
    /\ \E arg \in ImportArgs, choice \in Strategies \cup {"abort"} :
           LET file == ReadFile(fs[arg])
               u == Unmarshal(file.doc, EmptyMap, TRUE)
               imported == [Profiles |-> u.m, isNil |-> u.isNil]
               failed == [Report(p, "interactive", "import", "failed", 1, "Import failed")
                             EXCEPT !.arg = arg, !.path = arg]
               rep == [Report(p, "interactive", "import", "ok", 0,
                              "Profiles imported successfully")
                          EXCEPT !.arg = arg, !.path = arg, !.strategy = choice,
                                 !.imported = imported]
           IN  IF file.err THEN Finish(p, failed, cm[p], fs, gitcfg)
               ELSE IF u.err THEN Finish(p, failed, cm[p], fs, gitcfg)
               ELSE IF choice = "abort"
               THEN Finish(p, [failed EXCEPT !.verr = "import cancelled",
                                             !.strategy = choice],
                           cm[p], fs, gitcfg)
               ELSE IF choice = "Merge"
               THEN IF Merge(cm[p], imported).panic THEN Panic(p, rep)
                    ELSE FinishSaved(p, rep, Merge(cm[p], imported).cm)
               ELSE FinishSaved(p, rep, Replace(cm[p], imported))

(***************************************************************************)
(* The commands of the argument-driven surface (src/main.go)               *)
(***************************************************************************)
\* add [name] [username] [email]: the entry is assigned without a check
addCmdArgs(p) ==
    /\ pc[p] = "ready"
    /\ \E name \in PromptNames, pair \in ArgPairs :
           LET rep == [Report(p, "args", "add", "ok", 0, "added successfully")
                          EXCEPT !.name = name, !.entered = pair]
           IN  IF cm[p].isNil THEN Panic(p, rep)
               ELSE FinishSaved(p, rep,
                        [cm[p] EXCEPT !.Profiles =
                            MapSet(@, name, Profile(pair[1], pair[2], EmptyStr))])

\* apply [profile-name]
applyCmdArgs(p) ==
    /\ pc[p] = "ready"
    /\ \E name \in Names, oks \in BOOLEAN \X BOOLEAN :
           IF name \notin DOMAIN cm[p].Profiles
           THEN Finish(p, [Report(p, "args", "apply", "failed", 0, "Profile not found")
                              EXCEPT !.name = name],
                       cm[p], fs, gitcfg)
           ELSE ApplyProfile(p, "args", name, cm[p].Profiles[name], "global", oks)

(***************************************************************************)
(* One process at a time: each invocation constructs the ConfigManager and *)
(* runs one command.                                                       *)
(***************************************************************************)
\* main: the ConfigManager is constructed, then rootCmd.Execute() runs the one
\* command of the invocation
Step(p) ==
    \/ NewConfigManager(p)
    \/ listCmd(p)
    \/ addCmd(p)
    \/ editCmd(p)
    \/ removeCmd(p)
    \/ applyCmd(p)
    \/ exportCmd(p)
    \/ importCmd(p)
    \/ addCmdArgs(p)
    \/ applyCmdArgs(p)

Next == Step("p1")

Spec == Init /\ [][Next]_vars

(***************************************************************************)
(* Two invocations at once on the shared config file.  Nothing locks the   *)
(* file, and save is json.MarshalIndent followed by os.WriteFile, which    *)
(* opens the file with O_TRUNC and then writes the bytes at offset 0: the  *)
(* other process can load, truncate or write between any two of these.     *)
(***************************************************************************)
\* the bytes of a string in a file
RECURSIVE StrSize(_)
StrSize(s) ==
    IF s = <<>> THEN 0
    ELSE (IF Head(s) = UFFFD THEN 3 ELSE 1) + StrSize(Tail(s))

\* the bytes of one member as MarshalIndent(_, "", "  ") lays it out: the key
\* line, the name and email lines, "signing": {} or the three lines of a
\* signing object with its key, and the closing brace
MemberSize(j) ==
    (8 + StrSize(j.key)) + (16 + StrSize(j.name[1])) + (17 + StrSize(j.email[1]))
    + (IF j.signing[1] = <<>> THEN 18 ELSE 39 + StrSize(j.signing[1][1])) + 3

RECURSIVE MembersSize(_)
MembersSize(ms) ==
    IF ms = <<>> THEN 0
    ELSE MemberSize(Head(ms)) + (IF Tail(ms) = <<>> THEN 0 ELSE 2)
         + MembersSize(Tail(ms))

\* the length in bytes of a file the program wrote
RECURSIVE DocSize(_)
DocSize(doc) ==
    CASE doc.k = "empty" -> 0
      [] doc.k = "null" -> 4
      [] doc.k = "object" ->
            IF doc.members = <<>> THEN 2 ELSE 2 + MembersSize(doc.members) + 2
      [] doc.k = "torn" -> DocSize(doc.members[2])

\* a write at offset 0 of a file that was not truncated since its last write:
\* a longer content keeps its tail behind the new bytes
Overlay(cur, new) ==
    IF DocSize(cur) <= DocSize(new) THEN new ELSE Doc("torn", <<new, cur>>)

\* lines typed by the users of the two invocations
ConcInputs == { l \in InputTriples : \A i \in 1..3 : l[i] # <<XFF>> }

InitConc ==
    /\ Init
    /\ fs[ConfigPath] \in {Absent, FileOf(Marshal(StoreA, FALSE))}
    /\ fs[BackupPath] = Absent

\* main: NewConfigManager of an invocation that has not started yet
Load(p) ==
    /\ pc[p] = "idle"
    /\ NewConfigManager(p)

\* the command up to its call of save: add, edit or rm changes the map
Mutate(p) ==
    /\ pc[p] = "ready"
    /\ ~cm[p].isNil
    /\ \E cmd \in {"add", "edit", "rm"}, n \in Names, lines \in ConcInputs :
          /\ cmd = "add" => Validate(cm[p], n) = ""
          /\ cmd # "add" => n \in DOMAIN cm[p].Profiles
          /\ cm' = [cm EXCEPT ![p].Profiles =
                      CASE cmd = "add" ->
                              MapSet(@, n, interactiveProfileInput(FALSE, ZeroProfile, lines))
                        [] cmd = "edit" ->
                              MapSet(@, n, interactiveProfileInput(TRUE, @[n], lines))
                        [] cmd = "rm" -> MapDelete(@, n)]
          /\ last' = [Report(p, "interactive", cmd, "saving", 0, "")
                         EXCEPT !.name = n, !.entered = lines]
    /\ pc' = [pc EXCEPT ![p] = "saving"]
    /\ pre' = [cm |-> cm[p], fs |-> fs, git |-> gitcfg]
    /\ UNCHANGED <<fs, gitcfg, runs>>

\* os.WriteFile, first half: open with O_WRONLY|O_CREATE|O_TRUNC
OpenTrunc(p) ==
    /\ pc[p] = "saving"
    /\ fs' = [fs EXCEPT ![ConfigPath] = FileOf(EmptyDoc)]
    /\ pc' = [pc EXCEPT ![p] = "opened"]
    /\ UNCHANGED <<gitcfg, cm, runs, pre, last>>

\* os.WriteFile, second half: write the bytes and close; the command is over
Write(p) ==
    /\ pc[p] = "opened"
    /\ fs' = [fs EXCEPT ![ConfigPath] =
                 FileOf(Overlay(@.doc, Marshal(cm[p].Profiles, cm[p].isNil)))]
    /\ pc' = [pc EXCEPT ![p] = "exited"]
    /\ last' = Report(p, "interactive", "save", "ok", 0, "")
    /\ UNCHANGED <<gitcfg, cm, runs, pre>>

StepConc(p) == Load(p) \/ Mutate(p) \/ OpenTrunc(p) \/ Write(p)

NextConc == \E p \in Procs : StepConc(p)

SpecConc == InitConc /\ [][NextConc]_vars

(***************************************************************************)
(* What the last command saw and left.                                     *)
(***************************************************************************)
\* the store of the process that ran the last command, now and when it began
Cur == cm[last.proc]
Before == pre.cm
\* the mapping the import file holds, parsed as Import parses it
ParsedImport == Unmarshal(ReadFile(pre.fs[last.path]).doc, EmptyMap, TRUE)
StoreAB == MapSet(EmptyMap, work, ProfA)
ImportBC == MapSet(MapSet(EmptyMap, work, ProfB), personal, ProfC)

(***************************************************************************)
(* C1: import with the merge strategy never overwrites: whatever the       *)
(* current store S and the parsed import mapping I, the store after the    *)
(* import maps each name of S to the profile it had in S, each name of I   *)
(* that is not in S to its profile from I, and holds no other name.        *)
(* Fails on a nil store (a config file holding null): the first new name   *)
(* is assigned to a nil map and the process panics.                        *)
(***************************************************************************)
C1_MergeNeverOverwrites ==
    (last.cmd = "import" /\ last.strategy = "Merge") =>
        LET S == Before.Profiles
            I == ParsedImport.m
        IN  /\ DOMAIN Cur.Profiles = (DOMAIN S) \cup (DOMAIN I)
            /\ \A n \in DOMAIN S : Cur.Profiles[n] = S[n]
            /\ \A n \in (DOMAIN I) \ (DOMAIN S) : Cur.Profiles[n] = I[n]

\* the program writes such a config file itself: a Replace import of a file
\* holding null saves the nil map as null
NullConfigWritten ==
    /\ last.cmd = "import" /\ last.strategy = "Replace" /\ last.result = "ok"
    /\ pre.fs[ConfigPath] # FileOf(NullDoc)
    /\ fs[ConfigPath] = FileOf(NullDoc)

\* the same law where the store is an allocated map, which is where it holds
C1_MergeOnAllocatedMap ==
    (last.cmd = "import" /\ last.strategy = "Merge" /\ ~Before.isNil) =>
        LET S == Before.Profiles
            I == ParsedImport.m
        IN  /\ DOMAIN Cur.Profiles = (DOMAIN S) \cup (DOMAIN I)
            /\ \A n \in DOMAIN S : Cur.Profiles[n] = S[n]
            /\ \A n \in (DOMAIN I) \ (DOMAIN S) : Cur.Profiles[n] = I[n]

(***************************************************************************)
(* C2: import with the replace strategy discards the current store: the    *)
(* store after a successful import equals the parsed import mapping, so    *)
(* every name of S absent from I is gone and every name of I carries I's   *)
(* profile; the config file then holds that mapping.                       *)
(***************************************************************************)
C2_ReplaceDiscardsStore ==
    (last.cmd = "import" /\ last.strategy = "Replace" /\ last.result = "ok") =>
        /\ Cur.Profiles = ParsedImport.m
        /\ \A n \in (DOMAIN Before.Profiles) \ (DOMAIN ParsedImport.m) :
               n \notin DOMAIN Cur.Profiles
        /\ load(fs[ConfigPath]).cm.Profiles = ParsedImport.m

\* S = {work: A}, I = {work: B, personal: C} gives {work: B, personal: C}
C2_Witness ==
    /\ last.cmd = "import" /\ last.strategy = "Replace" /\ last.result = "ok"
    /\ Before.Profiles = StoreAB
    /\ ParsedImport.m = ImportBC
    /\ Cur.Profiles = ImportBC

(***************************************************************************)
(* C3: edit-merge law.  As stated: each field of the edited profile equals *)
(* the entered value when that is non-empty and P's value when it is       *)
(* empty.  The code trims every line first, so this fails for a line with  *)
(* white space around it or of white space only.                           *)
(***************************************************************************)
Edited == last.cmd = "edit" /\ last.result \in {"ok", "fatal"}
EnteredOr(entered, old) == IF entered # EmptyStr THEN entered ELSE old

C3_EditMergeAsEntered ==
    Edited =>
        LET P == Before.Profiles[last.name]
            R == Cur.Profiles[last.name]
        IN  /\ R.Name = EnteredOr(last.entered[1], P.Name)
            /\ R.Email = EnteredOr(last.entered[2], P.Email)
            /\ R.Signing.Key = EnteredOr(last.entered[3], P.Signing.Key)

\* C3 as amended: the law holds of the entered lines with leading and
\* trailing white space removed; a line of white space only counts as empty.
C3_EditMergeTrimmed ==
    Edited =>
        LET P == Before.Profiles[last.name]
            R == Cur.Profiles[last.name]
        IN  /\ R.Name = EnteredOr(TrimSpace(last.entered[1]), P.Name)
            /\ R.Email = EnteredOr(TrimSpace(last.entered[2]), P.Email)
            /\ R.Signing.Key = EnteredOr(TrimSpace(last.entered[3]), P.Signing.Key)
            /\ (\A i \in 1..3 : TrimSpace(last.entered[i]) = EmptyStr) => R = P

\* only the email entered: the email changes, name and signing key stay
C3_Witness ==
    /\ Edited
    /\ last.entered = <<EmptyStr, <<SP, "c">>, EmptyStr>>
    /\ Before.Profiles[last.name] = ProfB
    /\ Cur.Profiles[last.name] = Profile(<<"B">>, <<"c">>, <<"k">>)

(***************************************************************************)
(* C4: add rejects a duplicate name and an empty name: an add of a name    *)
(* the store already holds, or of the empty name, leaves the in-memory     *)
(* store and the config file unchanged and reports an error.  The          *)
(* argument-driven add assigns the entry without any check.                *)
(***************************************************************************)
C4_AddRejectsDuplicateOrEmpty ==
    (last.cmd = "add" /\ (last.name \in DOMAIN Before.Profiles \/ last.name = EmptyStr)) =>
        /\ Cur = Before
        /\ fs = pre.fs
        /\ last.verr # ""

\* the interactive add does reject both
C4_InteractiveAddRejects ==
    (/\ last.cmd = "add" /\ last.surface = "interactive"
     /\ (last.name \in DOMAIN Before.Profiles \/ last.name = EmptyStr)) =>
        /\ Cur = Before
        /\ fs = pre.fs
        /\ last.verr # ""

(***************************************************************************)
(* C5: round trip: serializing any store with save/export and parsing the  *)
(* result back with load/import yields the identical mapping: the same     *)
(* names, the same name and email for each, and a signing key in the       *)
(* parsed profile if and only if it was non-empty in the original.  The    *)
(* encoder replaces every byte that is not valid UTF-8 by U+FFFD, so a     *)
(* store holding such a byte does not come back.                           *)
(***************************************************************************)
RoundTrips(c) ==
    LET doc == Marshal(c.Profiles, c.isNil)
        viaLoad == load(FileOf(doc))
        viaImport == Unmarshal(doc, EmptyMap, TRUE)
    IN  /\ ~viaLoad.fatal /\ viaLoad.cm.Profiles = c.Profiles
        /\ ~viaImport.err /\ viaImport.m = c.Profiles
        /\ doc.k = "object" =>
              \A i \in 1..Len(doc.members) :
                  LET key == doc.members[i].key
                  IN  (doc.members[i].signing[1] # <<>>)
                          <=> (viaLoad.cm.Profiles[key].Signing.Key # EmptyStr)

C5_RoundTrip == \A p \in Procs : RoundTrips(cm[p])

ValidUTF8(str) == \A i \in 1..Len(str) : str[i] # XFF
ValidStore(c) ==
    \A n \in DOMAIN c.Profiles :
        /\ ValidUTF8(n) /\ ValidUTF8(c.Profiles[n].Name)
        /\ ValidUTF8(c.Profiles[n].Email) /\ ValidUTF8(c.Profiles[n].Signing.Key)

\* the round trip does hold of every store whose strings are valid UTF-8
C5_RoundTripOfValidUTF8 ==
    \A p \in Procs : ValidStore(cm[p]) => RoundTrips(cm[p])

(***************************************************************************)
(* C6: remove yields the prior store minus exactly the given name: after   *)
(* remove(n) the name n is absent and every other name maps to the profile *)
(* it had; when n is not in the store, the store and its size are          *)
(* unchanged, so removing twice equals removing once.                      *)
(***************************************************************************)
Removed == last.cmd = "rm" /\ last.result \in {"ok", "fatal"}

C6_RemoveExactlyTheName ==
    /\ Removed =>
          /\ last.name \notin DOMAIN Cur.Profiles
          /\ DOMAIN Cur.Profiles = (DOMAIN Before.Profiles) \ {last.name}
          /\ \A n \in DOMAIN Cur.Profiles : Cur.Profiles[n] = Before.Profiles[n]
          /\ MapDelete(Cur.Profiles, last.name) = Cur.Profiles
    /\ \A p \in Procs :
          \A n \in {NameUniverse[i] : i \in 1..Len(NameUniverse)} \cup {EmptyStr} :
              n \notin DOMAIN cm[p].Profiles =>
                  /\ MapDelete(cm[p].Profiles, n) = cm[p].Profiles
                  /\ Cardinality(DOMAIN MapDelete(cm[p].Profiles, n))
                        = Cardinality(DOMAIN cm[p].Profiles)

\* one of two profiles removed, the other left as it was
C6_Witness ==
    /\ Removed
    /\ Before.Profiles = ImportBC
    /\ last.name = work
    /\ Cur.Profiles = MapSet(EmptyMap, personal, ProfC)

(***************************************************************************)
(* C7: apply sets user.name first and user.email second; if the user.name  *)
(* invocation fails the user.email invocation is never attempted; if the   *)
(* user.email invocation fails the user.name already written is not rolled *)
(* back; the success message is printed only when both succeeded.          *)
(***************************************************************************)
Applied == last.cmd = "apply" /\ last.calls # <<>>

C7_ApplyNameThenEmail ==
    /\ (last.cmd = "apply" /\ last.msg = "applied successfully") => Applied
    /\ Applied =>
          LET calls == last.calls
              profile == Before.Profiles[last.name]
          IN  /\ Len(calls) \in {1, 2}
              /\ calls[1].cmd.key = "name" /\ calls[1].cmd.value = profile.Name
              /\ (Len(calls) = 2) <=> calls[1].ok
              /\ (Len(calls) = 2) =>
                    calls[2].cmd.key = "email" /\ calls[2].cmd.value = profile.Email
              /\ ~calls[1].ok => gitcfg = pre.git
              /\ (Len(calls) = 2 /\ ~calls[2].ok) =>
                    /\ gitcfg.name = <<profile.Name>>
                    /\ gitcfg.email = pre.git.email
              /\ (last.msg = "applied successfully")
                    <=> (Len(calls) = 2 /\ calls[2].ok)
              /\ (last.msg = "applied successfully") =>
                    gitcfg = [name |-> <<profile.Name>>, email |-> <<profile.Email>>]

\* user.name written, user.email failed: the name stays, no success message
C7_Witness ==
    /\ Applied
    /\ Len(last.calls) = 2 /\ ~last.calls[2].ok
    /\ pre.git = Unset
    /\ gitcfg = [name |-> <<ProfA.Name>>, email |-> <<>>]
    /\ last.msg = "Error applying profile"

(***************************************************************************)
(* C8: load never silently continues with corrupt data.  As stated: load   *)
(* returns normally only when the config file is absent or its content is  *)
(* a well-formed JSON mapping from name to Profile.  The code also returns *)
(* normally for a file of zero length and for the JSON literal null.       *)
(***************************************************************************)
Loaded == last.cmd = "load"
ConfigBefore == pre.fs[ConfigPath]

C8_LoadOnlyWellFormedMapping ==
    (Loaded /\ last.result = "ok") =>
        \/ ConfigBefore.st = "absent"
        \/ ConfigBefore.st \in {"file", "readonly"} /\ ConfigBefore.doc.k = "object"

\* C8 as amended: an absent file gives an empty store and no error; a file
\* that cannot be read, or whose non-empty content does not decode as a JSON
\* object of profiles or as null, ends the process fatally before any command
\* runs and without modifying the file; load returns normally exactly for an
\* absent file, a zero-length file (empty store), an object and null (nil
\* store).
C8_LoadFatalUnlessDecodable ==
    /\ Loaded =>
          /\ last.result \in {"ok", "fatal"}
          /\ (last.result = "ok") <=>
                \/ ConfigBefore.st = "absent"
                \/ /\ ConfigBefore.st \in {"file", "readonly"}
                   /\ ConfigBefore.doc.k \in {"empty", "object", "null"}
          /\ (ConfigBefore.st = "absent" \/ ConfigBefore = FileOf(EmptyDoc)) =>
                Cur = NewMap
          /\ (last.result = "ok" /\ ConfigBefore.doc.k = "null") =>
                Cur.isNil /\ DOMAIN Cur.Profiles = {}
          /\ (last.result = "ok" /\ ConfigBefore.doc.k = "object") =>
                Cur.Profiles = DecodeMembers(ConfigBefore.doc.members, EmptyMap)
          /\ last.result = "fatal" => (pc[last.proc] = "exited" /\ last.exit = 1)
          /\ fs = pre.fs
    /\ \A p \in Procs :
          pc[p] = "ready" => (Loaded /\ last.proc = p /\ last.result = "ok")

\* a config file that is not JSON: fatal, the file untouched, no command run
C8_Witness ==
    /\ Loaded /\ last.result = "fatal"
    /\ ConfigBefore = FileOf(MalformedDoc)
    /\ fs[ConfigPath] = FileOf(MalformedDoc)
    /\ pc[last.proc] = "exited"

(***************************************************************************)
(* C9: every mutating command persists: when an add, edit, rm or import    *)
(* completes after changing the in-memory store, the config file holds the *)
(* serialization of the full store, so that a load in a new process        *)
(* observes exactly that store.  The second half fails for a store holding *)
(* a byte that is not valid UTF-8 (see C5).                                *)
(***************************************************************************)
Mutated ==
    /\ last.cmd \in {"add", "edit", "rm", "import"}
    /\ last.result = "ok"
    /\ Cur # Before

C9_MutationPersisted ==
    Mutated =>
        /\ fs[ConfigPath] = FileOf(Marshal(Cur.Profiles, Cur.isNil))
        /\ ~load(fs[ConfigPath]).fatal
        /\ load(fs[ConfigPath]).cm.Profiles = Cur.Profiles

\* what does hold: the file is the serialization of the store, and it loads to
\* the store whenever the store's strings are valid UTF-8
C9_FileIsSerialization ==
    Mutated =>
        /\ fs[ConfigPath] = FileOf(Marshal(Cur.Profiles, Cur.isNil))
        /\ ~load(fs[ConfigPath]).fatal
        /\ ValidStore(Cur) => load(fs[ConfigPath]).cm.Profiles = Cur.Profiles

(***************************************************************************)
(* C10: the read-only commands leave the store unchanged.  As stated: ls,  *)
(* apply and export, with or without a path, change neither the in-memory  *)
(* store nor the content of the config file.  An export whose destination  *)
(* is the config file itself (export ~/.git-profiles) overwrites it.       *)
(***************************************************************************)
ReadOnlyCmd == last.cmd \in {"ls", "apply", "export"}

ExportDestination == IF last.arg = NoPath THEN DefaultExportPath ELSE EnsureJson(last.arg)

UserCancelled ==
    \/ last.cmd \in {"add", "edit", "rm", "apply"} /\ last.result = "cancelled"
    \/ last.cmd = "import" /\ last.strategy = "abort"

C11_CancelIsNotAFailure ==
    UserCancelled =>
        /\ last.result = "cancelled" /\ last.exit = 0
        /\ Cur = Before
        /\ fs[ConfigPath] = pre.fs[ConfigPath]

\* what does hold: a cancellation changes neither store nor files, and it is
\* reported as one everywhere but in import
C11_CancelChangesNothing ==
    UserCancelled =>
        /\ Cur = Before /\ fs = pre.fs /\ gitcfg = pre.git
        /\ last.cmd # "import" => (last.result = "cancelled" /\ last.exit = 0)
        /\ last.cmd = "import" => (last.result = "failed" /\ last.exit = 1)

\* the strategy prompt of an import of a file that parses is aborted
C11_ImportAborted ==
    /\ last.cmd = "import" /\ last.strategy = "abort"
    /\ ~ParsedImport.err
    /\ last.exit = 1

(***************************************************************************)
(* C12: for every loaded non-empty store, ls prints each profile of the    *)
(* store with its stored field values and marks the one whose name and     *)
(* email match the external tool's current identity; if the tool reports   *)
(* no configured identity, no profile is marked active.  listCmd returns   *)
(* as soon as getActiveProfile fails, before it prints any profile.        *)
(***************************************************************************)
Listed == last.cmd = "ls" /\ DOMAIN Before.Profiles # {}
\* the external tool reported a user.name and a user.email
IdentityConfigured == ~getActiveProfile(pre.git).err

\* the lines ls is to print: every profile, marked when it is the identity
ExpectedListing ==
    { [name |-> n, profile |-> Before.Profiles[n],
       active |-> /\ IdentityConfigured
                  /\ Before.Profiles[n].Name = pre.git.name[1]
                  /\ Before.Profiles[n].Email = pre.git.email[1]]
      : n \in DOMAIN Before.Profiles }

C12_LsPrintsEveryProfile == Listed => last.listing = ExpectedListing

\* what does hold: with an identity configured the listing is complete and
\* marked; without one, ls reports the error and lists nothing
C12_LsWithIdentity ==
    Listed =>
        /\ IdentityConfigured => (last.listing = ExpectedListing /\ last.result = "ok")
        /\ ~IdentityConfigured => (last.listing = {} /\ last.result = "failed")
        /\ Cur = Before /\ fs = pre.fs /\ gitcfg = pre.git

\* add of a profile to an empty store, then ls where no identity is configured
C12_LsInFreshEnvironment ==
    /\ Listed /\ ~IdentityConfigured
    /\ Cardinality(DOMAIN Before.Profiles) = 1
    /\ last.listing = {}

\* a listing with the applied profile marked active
C12_LsMarksActive ==
    /\ Listed /\ \E l \in last.listing : l.active

(***************************************************************************)
(* C13: non-zero process exit on any reported failure: whenever a command  *)
(* reports a failure to the user (external-tool failure during apply,      *)
(* failure to read the active identity during ls, export I/O failure,      *)
(* import read or parse failure, apply of a profile name that is not in    *)
(* the store), the process exits with a non-zero status.  apply and ls     *)
(* print the error and return from Run, so that main ends with status 0.   *)
(***************************************************************************)
ReportedFailure == last.result \in {"failed", "fatal"}

C13_FailureExitsNonZero == ReportedFailure => last.exit # 0

\* what does hold: the failures of export and import and the fatal errors of
\* load and save exit with status 1, those of apply and ls with status 0
C13_ExitStatusOfFailures ==
    ReportedFailure =>
        /\ last.cmd \in {"export", "import"} => last.exit = 1
        /\ last.result = "fatal" => last.exit = 1
        /\ (last.cmd \in {"apply", "ls"} /\ last.result = "failed") => last.exit = 0

\* the external tool fails while a profile of the store is applied
C13_ApplyFailed ==
    /\ last.cmd = "apply" /\ last.result = "failed"
    /\ last.name \in DOMAIN Before.Profiles
    /\ \E i \in 1..Len(last.calls) : ~last.calls[i].ok
    /\ last.exit = 0

(***************************************************************************)
(* C14: last writer wins under concurrent invocations: when two processes  *)
(* each run load, one mutation and save on the shared config file, under   *)
(* every interleaving the final file content is exactly the full store     *)
(* saved by whichever process saves last, never a mixture of the two, and  *)
(* there are interleavings in which the other process's mutation is lost.  *)
(* When both have opened the file before either writes and the first       *)
(* write is the longer one, the second leaves the tail of the first        *)
(* behind its own bytes.                                                   *)
(***************************************************************************)
BothSaved == \A p \in Procs : pc[p] = "exited" /\ ~cm[p].isNil
Other == CHOOSE p \in Procs : p # last.proc
Saved(p) == Marshal(cm[p].Profiles, cm[p].isNil)

C14_LastWriterWins ==
    (BothSaved /\ last.cmd = "save") => fs[ConfigPath] = FileOf(Saved(last.proc))

\* what does hold: the file is the last writer's store, or it is the last
\* writer's bytes over the longer content of the other, which no load accepts
C14_LastWriterWinsOrTorn ==
    (BothSaved /\ last.cmd = "save") =>
        \/ fs[ConfigPath] = FileOf(Saved(last.proc))
        \/ /\ fs[ConfigPath] = FileOf(Doc("torn", <<Saved(last.proc), Saved(Other)>>))
           /\ DocSize(Saved(Other)) > DocSize(Saved(last.proc))
           /\ load(fs[ConfigPath]).fatal

\* a lost update: both added to the store they loaded, one adding work and
\* the other personal, and the file holds the last writer's profile only
C14_LostUpdate ==
    /\ BothSaved /\ last.cmd = "save"
    /\ fs[ConfigPath] = FileOf(Saved(last.proc))
    /\ DOMAIN cm[last.proc].Profiles = {personal}
    /\ DOMAIN cm[Other].Profiles = {work}

\* a mixture: the file is neither process's store
C14_TornFile ==
    /\ BothSaved /\ last.cmd = "save"
    /\ fs[ConfigPath].doc.k = "torn"

(***************************************************************************)
(* C15: in every state reachable by load, add, edit, rm and import (merge  *)
(* or replace, with any file content that parses without error, the JSON   *)
(* value null included), the in-memory store is a usable mapping, possibly *)
(* empty, to which a profile can be added, so that a later add or edit, in *)
(* the same or a later process that loads the saved file, never crashes.   *)
(* null decodes to a nil map: Replace makes it the store and saves it as   *)
(* null, load of that file sets the fresh map to nil, and add and a merge  *)
(* import then assign to an entry of a nil map.                            *)
(***************************************************************************)
C15_StoreAlwaysUsable ==
    /\ \A p \in Procs : ~cm[p].isNil
    /\ last.result # "panic"

\* what does hold: the store is nil only after a load or a Replace import of
\* null, and only an assignment to a nil store panics
C15_NilOnlyFromNull ==
    /\ Cur.isNil =>
          \/ Before.isNil
          \/ last.cmd = "load" /\ ConfigBefore = FileOf(NullDoc)
          \/ last.cmd = "import" /\ last.strategy = "Replace" /\ ParsedImport.isNil
    /\ last.result = "panic" =>
          /\ Before.isNil /\ Cur = Before /\ fs = pre.fs
          /\ last.cmd \in {"add", "import"}
          /\ last.exit = 2

\* add panics in a process that loaded a config file holding null, as the
\* Replace import of null leaves it (NullConfigWritten)
C15_AddPanicsOnNilStore ==
    /\ last.cmd = "add" /\ last.result = "panic"
    /\ last.surface = "interactive"
    /\ pre.fs[ConfigPath] = FileOf(NullDoc)
====
